---- MODULE Spec2Model ----
(***************************************************************************)
(* The imposter of src/src/models/imposter.js: one virtual server, its     *)
(* creation promise, the request pipeline (getResponseFor), the deferred   *)
(* proxy completion (getProxyResponseFor), the JSON views (toJSON) and     *)
(* stop.  JavaScript objects are functions from field names to values; a   *)
(* field that is undefined is a name outside the DOMAIN.                   *)
(*                                                                         *)
(* The protocol factory, the stub store, the resolver, helpers.clone and   *)
(* compatibility.upcast are collaborators whose code is not part of the    *)
(* two source files; they are modelled from their interface in spec.md     *)
(* and every outcome they can produce is a nondeterministic choice.        *)
(* The logger is left out: it holds no state any operation reads back.     *)
(* resetProxies is handed through to the stub store unchanged (line 195)   *)
(* and has no code in the imposter, so it has no action here.              *)
(***************************************************************************)
EXTENDS Integers, Sequences, FiniteSets, TLC

(* ------------------------------ bounds -------------------------------- *)
\* the code bounds nothing; each specification below bounds the calls it
\* explores
MaxCalls == 2        \* Spec: calls of the imposter's operations, all told
MaxRequests == 2     \* the other specifications: getResponseFor calls
MaxProxyCalls == 1   \* getProxyResponseFor calls
MaxAddedStubs == 1   \* addStub calls
MaxErrors == 1       \* errors raised inside the domain
MaxStops == 2        \* SpecStop: stop calls
MaxStopRequests == 1 \* SpecStop: getResponseFor calls

(* --------------------------- JavaScript values ------------------------ *)
Has(o, f) == f \in DOMAIN o

EmptyObject == <<>>

\* delete o[f]
Delete(o, f) == [k \in DOMAIN o \ {f} |-> o[k]]

\* o[f] = v
Assign(o, f, v) == (f :> v) @@ o

\* a flag field that is undefined or a boolean, used in a condition
Truthy(o, f) == Has(o, f) /\ o[f] = TRUE

\* a string field used in a condition: undefined and '' are falsy
TruthyString(o, f) == Has(o, f) /\ o[f] # ""

(* ------------------------------- inputs ------------------------------- *)
IsTimed == "is" :> (("data" :> "a") @@ ("_proxyResponseTime" :> "5ms"))
IsPlain == "is" :> ("data" :> "b")
ProxyOldShape == "proxy" :> ("to" :> [host |-> "up", port |-> "7000"])
ProxyUrl == "proxy" :> ("to" :> [url |-> <<"tcp://", "up", ":", "7000">>])

\* a stub holds the predicates a request must satisfy (none: every request
\* does) and its responses
EqualsData(d) == "equals" :> ("data" :> d)

StubA == ("predicates" :> <<EqualsData("a")>>) @@ ("responses" :> <<IsTimed>>)
StubB == "responses" :> <<ProxyOldShape, IsPlain>>
StubC == ("predicates" :> <<EqualsData("b")>>) @@ ("responses" :> <<ProxyUrl>>)

Protocol == "tcp"

CreationRequests ==
    { ("protocol" :> Protocol) @@ ("port" :> 6000) @@ ("name" :> "imp")
          @@ ("recordRequests" :> TRUE) @@ ("stubs" :> <<StubA, StubB>>),
      ("protocol" :> Protocol),
      ("protocol" :> Protocol) @@ ("port" :> 6000) @@ ("name" :> "")
          @@ ("recordRequests" :> FALSE) @@ ("stubs" :> <<StubC, StubA>>) }

Configs == [recordRequests : BOOLEAN, recordMatches : BOOLEAN]

RequestData == {"a", "b"}
Requests == {("data" :> d) : d \in RequestData}

AddableStubs == {StubA, StubC}

Errnos == {"EADDRINUSE", "EACCES", "ECONNRESET"}
TransportErrors == {("errno" :> e) @@ ("message" :> <<"listen ", e>>) : e \in Errnos}

\* the ports the factory may bind when the request names none
EphemeralPorts == {6001}
Metadatas == {EmptyObject, "mode" :> "text"}

VARIABLES
    creationRequest,   \* the parsed imposter JSON, after upcast
    config,            \* the host's command line options (a live object)
    forceRecording,    \* config.recordRequests as read on line 63
    numberOfRequests,
    requests,          \* the recorded-request log
    now,               \* the clock new Date() reads
    server,            \* the transport: state, port, metadata
    stubs,             \* the stub store's rules (set once the server is wired)
    matches,           \* the recordMatch calls the stub store has taken
    calls,             \* the getResponseFor invocations, in arrival order
    pendingProxyResolutions, \* the resolver's keys awaiting a proxy result
    proxyCalls,        \* the getProxyResponseFor invocations
    deferred,          \* the creation promise
    domainErrors,      \* the errors the domain has handed to errorHandler, in order
    stops,             \* the stop() invocations' promises
    jsonResult         \* what toJSON returned, if the last step was a toJSON call

vars == <<creationRequest, config, forceRecording, numberOfRequests, requests,
          now, server, stubs, matches, calls, pendingProxyResolutions,
          proxyCalls, deferred, domainErrors, stops, jsonResult>>

(* --------------------------- collaborators ---------------------------- *)
\* compatibility.upcast: an older field shape (a tcp proxy destination given
\* as host and port) is rewritten to the current one (a url)
upcastResponse(response) ==
    IF Has(response, "proxy") /\ Has(response["proxy"]["to"], "host")
    THEN "proxy" :> ("to" :> [url |-> <<"tcp://", response["proxy"]["to"].host,
                                        ":", response["proxy"]["to"].port>>])
    ELSE response

upcastStub(stub) ==
    Assign(stub, "responses",
           [j \in DOMAIN stub["responses"] |-> upcastResponse(stub["responses"][j])])

upcast(request) ==
    IF Has(request, "stubs")
    THEN Assign(request, "stubs",
                [i \in DOMAIN request["stubs"] |-> upcastStub(request["stubs"][i])])
    ELSE request

\* helpers.clone: a deep copy; values here carry no identity, so the copy
\* is the value itself
clone(obj) == obj

\* the stub store's addStub: the rule goes to the end of the ordered rules
addStub(store, stub) == Append(store, stub)

\* errors.ResourceConflictError / errors.InsufficientAccessError
ResourceConflictError(message) ==
    [code |-> "resource conflict", message |-> message]

InsufficientAccessError ==
    [code |-> "insufficient access", message |-> <<"Run mb in superuser mode">>]

\* Q.defer(): a promise is settled by the first resolve or reject it gets
Pending == [state |-> "pending"]

Resolve(d, value) ==
    IF d.state = "pending" THEN [state |-> "fulfilled", value |-> value] ELSE d

Reject(d, reason) ==
    IF d.state = "pending" THEN [state |-> "rejected", reason |-> reason] ELSE d

(* ------------------------------- create ------------------------------- *)
\* `${port}` in a template string
PortText(request) ==
    IF Has(request, "port") THEN ToString(request["port"]) ELSE "undefined"

\* a handler that passes every error on as it came
errorHandlerUntyped(error, request) == error

\* the rejection createErrorHandler's handler gives for an error
errorHandler(error, request) ==
    IF error["errno"] = "EADDRINUSE"
    THEN ResourceConflictError(<<"Port ", PortText(request), " is already in use">>)
    ELSE IF error["errno"] = "EACCES"
         THEN InsufficientAccessError
         ELSE error

\* recording only when both flags ask for it
recordRequestsBoth ==
    forceRecording /\ Truthy(creationRequest, "recordRequests")

\* recording decided by the host's flag as it is now, not as it was read
recordRequestsLive ==
    config.recordRequests \/ Truthy(creationRequest, "recordRequests")

\* line 63: config.recordRequests || creationRequest.recordRequests
recordRequests ==
    forceRecording \/ Truthy(creationRequest, "recordRequests")

Wired == server.state # "creating"

\* no toJSON result is in the hands of a caller
NoResult == [called |-> FALSE]

Delivered == deferred.state = "fulfilled"

Init ==
    /\ \E request \in CreationRequests : creationRequest = upcast(request)
    /\ config \in Configs
    /\ forceRecording = config.recordRequests
    /\ numberOfRequests = 0
    /\ requests = <<>>
    /\ now = 0
    /\ server = [state |-> "creating"]
    /\ stubs = <<>>
    /\ matches = <<>>
    /\ calls = <<>>
    /\ pendingProxyResolutions = {}
    /\ proxyCalls = <<>>
    /\ deferred = Pending
    /\ domainErrors = <<>>
    /\ stops = <<>>
    /\ jsonResult = NoResult

\* the host changes a flag of its configuration object
ConfigChange(flag) ==
    /\ config' = [config EXCEPT ![flag] = ~@]
    /\ UNCHANGED <<creationRequest, forceRecording, numberOfRequests, requests,
                   now, server, stubs, matches, calls, pendingProxyResolutions,
                   proxyCalls, deferred, domainErrors, stops>>
    /\ jsonResult' = NoResult

\* a handler that replaces the promise's outcome instead of settling it
DomainErrorOverwrites(error) ==
    /\ domainErrors' = Append(domainErrors, error)
    /\ deferred' = [state |-> "rejected", reason |-> errorHandler(error, creationRequest)]
    /\ UNCHANGED <<creationRequest, config, forceRecording, numberOfRequests,
                   requests, now, server, stubs, matches, calls,
                   pendingProxyResolutions, proxyCalls, stops>>
    /\ jsonResult' = NoResult

\* domain.on('error', errorHandler): an error raised inside the domain
DomainError(error) ==
    /\ domainErrors' = Append(domainErrors, error)
    /\ deferred' = Reject(deferred, errorHandler(error, creationRequest))
    /\ UNCHANGED <<creationRequest, config, forceRecording, numberOfRequests,
                   requests, now, server, stubs, matches, calls,
                   pendingProxyResolutions, proxyCalls, stops>>
    /\ jsonResult' = NoResult

\* lines 110-112: creationRequest.stubs.forEach(stubs.addStub)
RECURSIVE AddEach(_, _)
AddEach(store, list) ==
    IF list = <<>> THEN store
    ELSE AddEach(addStub(store, Head(list)), Tail(list))

\* registering the initial stubs last to first
RegisterStubsBackwards(store, request) ==
    IF Has(request, "stubs")
    THEN AddEach(store, [i \in DOMAIN request["stubs"] |->
                            request["stubs"][Len(request["stubs"]) + 1 - i]])
    ELSE store

RegisterStubs(store, request) ==
    IF Has(request, "stubs") THEN AddEach(store, request["stubs"]) ELSE store

\* the object the creation promise resolves to (lines 189-198); its
\* operations are the actions below
Imposter(port) ==
    [port |-> port, url |-> <<"/imposters/", ToString(port)>>]

ServerPorts(request) ==
    IF Has(request, "port") THEN {request["port"]} ELSE EphemeralPorts

\* the callback of Protocol.createServer(...).done (lines 100-199)
ServerCreated(port, metadata) ==
    /\ server.state = "creating"
    /\ server' = [state |-> "listening", port |-> port, metadata |-> metadata]
    /\ stubs' = RegisterStubs(<<>>, creationRequest)
    /\ deferred' = Resolve(deferred, Imposter(port))
    /\ UNCHANGED <<creationRequest, config, forceRecording, numberOfRequests,
                   requests, now, matches, calls, pendingProxyResolutions,
                   proxyCalls, domainErrors, stops>>
    /\ jsonResult' = NoResult

(* --------------------------- getResponseFor --------------------------- *)
\* a counter that skips the requests arriving before the server is wired
CountRequestOnceWired(n) == IF Wired THEN n + 1 ELSE n

\* line 66
CountRequest(n) == n + 1

\* lines 67-71: the log after the request was dispatched at time t
Record(log, request, t) ==
    IF recordRequests
    THEN Append(log, Assign(clone(request), "timestamp", t))
    ELSE log

\* the stub store's matching: the first rule, in order, all of whose
\* predicates the request satisfies (0: no rule, the default response)
Satisfies(request, stub) ==
    \/ ~Has(stub, "predicates")
    \/ \A k \in DOMAIN stub["predicates"] :
           \A f \in DOMAIN stub["predicates"][k]["equals"] :
               Has(request, f) /\ request[f] = stub["predicates"][k]["equals"][f]

FirstMatch(store, request) ==
    IF \E i \in DOMAIN store : Satisfies(request, store[i])
    THEN CHOOSE i \in DOMAIN store :
             /\ Satisfies(request, store[i])
             /\ \A j \in 1 .. i - 1 : ~Satisfies(request, store[j])
    ELSE 0

\* the stub store's getResponseFor: the ResponseConfiguration of the rule the
\* request matched; the token is a fresh object for every call, named by
\* the call's number
stubsGetResponseFor(store, request, id) ==
    [id |-> id, stub |-> FirstMatch(store, request)]

\* how the synchronous part (lines 73-74) can end
Dispatched(request, id) ==
    IF ~Wired
    THEN {[request |-> request, pc |-> "threw"]}   \* stubs is undefined
    ELSE {[request |-> request, pc |-> "threw"]}   \* the store or the resolver throws
         \cup {[request |-> request, pc |-> "resolving",
                 responseConfig |-> stubsGetResponseFor(stubs, request, id)]}

\* a getResponseFor that waits until no proxy handoff is outstanding
GetResponseForAfterProxies(request) ==
    /\ pendingProxyResolutions = {}
    /\ numberOfRequests' = CountRequest(numberOfRequests)
    /\ now' = now + 1
    /\ requests' = Record(requests, request, now')
    /\ \E call \in Dispatched(request, Len(calls) + 1) : calls' = Append(calls, call)
    /\ UNCHANGED <<creationRequest, config, forceRecording, server, stubs,
                   matches, pendingProxyResolutions, proxyCalls, deferred,
                   domainErrors, stops>>
    /\ jsonResult' = NoResult

\* lines 65-74, up to the promise of resolver.resolve; every call reads a
\* later clock than the one before it
GetResponseFor(request) ==
    /\ numberOfRequests' = CountRequest(numberOfRequests)
    /\ now' = now + 1
    /\ requests' = Record(requests, request, now')
    /\ \E call \in Dispatched(request, Len(calls) + 1) : calls' = Append(calls, call)
    /\ UNCHANGED <<creationRequest, config, forceRecording, server, stubs,
                   matches, pendingProxyResolutions, proxyCalls, deferred,
                   domainErrors, stops>>
    /\ jsonResult' = NoResult

\* the responses the resolver can resolve call id to: in process, wrapped by
\* an out of process implementation, or a proxy handed off under a key
ResolvedResponses(id) ==
    LET direct  == "data" :> "r"
        handoff == "proxy" :> [key |-> id]
    IN  {direct, "response" :> direct, handoff}

\* recording the outer object of a wrapped response
RecordMatchOuter(response, responseConfig) ==
    IF config.recordMatches /\ ~Has(response, "proxy")
    THEN <<[responseConfig |-> responseConfig, response |-> response,
            by |-> "getResponseFor"]>>
    ELSE <<>>

\* lines 75-84: the recordMatch calls the callback makes on responseConfig
RecordMatch(response, responseConfig) ==
    IF config.recordMatches /\ ~Has(response, "proxy")
    THEN IF Has(response, "response")
         THEN <<[responseConfig |-> responseConfig, response |-> response["response"],
                 by |-> "getResponseFor"]>>
         ELSE <<[responseConfig |-> responseConfig, response |-> response,
                 by |-> "getResponseFor"]>>
    ELSE <<>>

\* resolver.resolve fulfils: the then-callback of lines 74-86 runs
ResolveFulfilled(id, response) ==
    /\ id \in DOMAIN calls
    /\ calls[id].pc = "resolving"
    /\ matches' = matches \o RecordMatch(response, calls[id].responseConfig)
    /\ calls' = [calls EXCEPT ![id] =
                    [request |-> @.request, pc |-> "returned",
                     responseConfig |-> @.responseConfig, response |-> response]]
    /\ pendingProxyResolutions' =
           IF Has(response, "proxy")
           THEN pendingProxyResolutions \cup {response["proxy"].key}
           ELSE pendingProxyResolutions
    /\ UNCHANGED <<creationRequest, config, forceRecording, numberOfRequests,
                   requests, now, server, stubs, proxyCalls, deferred,
                   domainErrors, stops>>
    /\ jsonResult' = NoResult

\* a rejection that takes every outstanding request down with it
ResolveRejectedFailsAll(id) ==
    /\ id \in DOMAIN calls
    /\ calls[id].pc = "resolving"
    /\ calls' = [k \in DOMAIN calls |->
                    IF calls[k].pc = "resolving"
                    THEN [request |-> calls[k].request, pc |-> "rejected",
                          responseConfig |-> calls[k].responseConfig]
                    ELSE calls[k]]
    /\ UNCHANGED <<creationRequest, config, forceRecording, numberOfRequests,
                   requests, now, server, stubs, matches, pendingProxyResolutions,
                   proxyCalls, deferred, domainErrors, stops>>
    /\ jsonResult' = NoResult

\* resolver.resolve rejects: the callback is skipped, the caller gets the failure
ResolveRejected(id) ==
    /\ id \in DOMAIN calls
    /\ calls[id].pc = "resolving"
    /\ calls' = [calls EXCEPT ![id] =
                    [request |-> @.request, pc |-> "rejected",
                     responseConfig |-> @.responseConfig]]
    /\ UNCHANGED <<creationRequest, config, forceRecording, numberOfRequests,
                   requests, now, server, stubs, matches, pendingProxyResolutions,
                   proxyCalls, deferred, domainErrors, stops>>
    /\ jsonResult' = NoResult

(* ------------------------- getProxyResponseFor ------------------------ *)
\* resolver.resolveProxy: a key it holds is taken and the proxy result is
\* resolved; any other key is rejected
GetProxyResponseFor(proxyResolutionKey) ==
    /\ Delivered
    /\ IF proxyResolutionKey \in pendingProxyResolutions
       THEN /\ pendingProxyResolutions' = pendingProxyResolutions \ {proxyResolutionKey}
            /\ proxyCalls' = Append(proxyCalls,
                                    [key |-> proxyResolutionKey, pc |-> "resolving"])
       ELSE /\ pendingProxyResolutions' = pendingProxyResolutions
            /\ proxyCalls' = Append(proxyCalls,
                                    [key |-> proxyResolutionKey, pc |-> "rejected"])
    /\ UNCHANGED <<creationRequest, config, forceRecording, numberOfRequests,
                   requests, now, server, stubs, matches, calls, deferred,
                   domainErrors, stops>>
    /\ jsonResult' = NoResult

\* recording the proxy's match whatever the flag says
RecordProxyMatchAlways(key) ==
    <<[responseConfig |-> calls[key].responseConfig,
       response |-> "data" :> "proxied", by |-> "getProxyResponseFor"]>>

\* lines 91-93: response.recordMatch() records on the configuration the
\* resolver kept under the key
RecordProxyMatch(key) ==
    IF config.recordMatches
    THEN <<[responseConfig |-> calls[key].responseConfig,
            response |-> "data" :> "proxied", by |-> "getProxyResponseFor"]>>
    ELSE <<>>

ProxyFulfilled(n) ==
    /\ n \in DOMAIN proxyCalls
    /\ proxyCalls[n].pc = "resolving"
    /\ matches' = matches \o RecordProxyMatch(proxyCalls[n].key)
    /\ proxyCalls' = [proxyCalls EXCEPT ![n].pc = "returned"]
    /\ UNCHANGED <<creationRequest, config, forceRecording, numberOfRequests,
                   requests, now, server, stubs, calls, pendingProxyResolutions,
                   deferred, domainErrors, stops>>
    /\ jsonResult' = NoResult

ProxyRejected(n) ==
    /\ n \in DOMAIN proxyCalls
    /\ proxyCalls[n].pc = "resolving"
    /\ proxyCalls' = [proxyCalls EXCEPT ![n].pc = "rejected"]
    /\ UNCHANGED <<creationRequest, config, forceRecording, numberOfRequests,
                   requests, now, server, stubs, matches, calls,
                   pendingProxyResolutions, deferred, domainErrors, stops>>
    /\ jsonResult' = NoResult

(* ------------------------------ addStub ------------------------------- *)
\* imposter.addStub is the stub store's addStub (line 193)
AddStub(stub) ==
    /\ Delivered
    /\ stubs' = addStub(stubs, stub)
    /\ UNCHANGED <<creationRequest, config, forceRecording, numberOfRequests,
                   requests, now, server, matches, calls, pendingProxyResolutions,
                   proxyCalls, deferred, domainErrors, stops>>
    /\ jsonResult' = NoResult

(* -------------------------------- stop -------------------------------- *)
\* a stop that fails the resolutions still outstanding
StopAbortsPending ==
    /\ Delivered
    /\ stops' = Append(stops, "pending")
    /\ calls' = [id \in DOMAIN calls |->
                    IF calls[id].pc = "resolving"
                    THEN [calls[id] EXCEPT !.pc = "rejected"] ELSE calls[id]]
    /\ proxyCalls' = [n \in DOMAIN proxyCalls |->
                         IF proxyCalls[n].pc = "resolving"
                         THEN [proxyCalls[n] EXCEPT !.pc = "rejected"]
                         ELSE proxyCalls[n]]
    /\ UNCHANGED <<creationRequest, config, forceRecording, numberOfRequests,
                   requests, now, server, stubs, matches,
                   pendingProxyResolutions, deferred, domainErrors>>
    /\ jsonResult' = NoResult

\* lines 180-187: every call asks the transport to close
Stop ==
    /\ Delivered
    /\ stops' = Append(stops, "pending")
    /\ UNCHANGED <<creationRequest, config, forceRecording, numberOfRequests,
                   requests, now, server, stubs, matches, calls,
                   pendingProxyResolutions, proxyCalls, deferred, domainErrors>>
    /\ jsonResult' = NoResult

\* the callback of server.close (lines 182-185)
CloseConfirmed(n) ==
    /\ n \in DOMAIN stops
    /\ stops[n] = "pending"
    /\ stops' = [stops EXCEPT ![n] = "resolved"]
    /\ server' = [server EXCEPT !.state = "closed"]
    /\ UNCHANGED <<creationRequest, config, forceRecording, numberOfRequests,
                   requests, now, stubs, matches, calls, pendingProxyResolutions,
                   proxyCalls, deferred, domainErrors>>
    /\ jsonResult' = NoResult

(* ------------------------------- toJSON ------------------------------- *)
\* the stub store's stubs(): a snapshot of the rules, each with the matches
\* recorded on it so far (a rule without a match has no matches field)
MatchesOf(i) == SelectSeq(matches, LAMBDA m : m.responseConfig.stub = i)

StubsSnapshot ==
    [i \in DOMAIN stubs |->
        IF MatchesOf(i) = <<>> THEN stubs[i]
        ELSE Assign(stubs[i], "matches", MatchesOf(i))]

Options == [list : BOOLEAN, replayable : BOOLEAN, removeProxies : BOOLEAN]

\* calling forEach on result.stubs when it is undefined
TypeError == [threw |-> "TypeError"]

Threw(result) == Has(result, "threw")

\* lines 114-126
addDetailsTo(result) ==
    LET named    == IF TruthyString(creationRequest, "name")
                    THEN Assign(result, "name", creationRequest["name"])
                    ELSE result
        flagged  == Assign(named, "recordRequests",
                           Truthy(creationRequest, "recordRequests"))
        withMeta == server.metadata @@ flagged
        withLog  == Assign(withMeta, "requests", requests)
    IN  Assign(withLog, "stubs", StubsSnapshot)

\* the timing field left in place
keepProxyResponseTime(response) == response

\* lines 134-138
removeProxyResponseTime(response) ==
    IF Has(response, "is") /\ Has(response["is"], "_proxyResponseTime")
    THEN Assign(response, "is", Delete(response["is"], "_proxyResponseTime"))
    ELSE response

\* lines 129-139, for one stub
removeNonEssentialInformationFromStub(stub) ==
    LET unmatched == IF Has(stub, "matches") THEN Delete(stub, "matches") ELSE stub
    IN  Assign(unmatched, "responses",
               [j \in DOMAIN stub["responses"] |->
                   removeProxyResponseTime(stub["responses"][j])])

\* lines 128-143
removeNonEssentialInformationFrom(result) ==
    IF ~Has(result, "stubs") THEN TypeError
    ELSE LET stripped == Assign(result, "stubs",
                             [i \in DOMAIN result["stubs"] |->
                                 removeNonEssentialInformationFromStub(result["stubs"][i])])
         IN  Delete(Delete(Delete(stripped, "numberOfRequests"), "requests"), "_links")

\* every response kept, proxies too
withProxiesKept(stub) == stub

\* line 147
withoutProxies(stub) ==
    Assign(stub, "responses",
           SelectSeq(stub["responses"], LAMBDA response : ~Has(response, "proxy")))

\* lines 145-150
removeProxiesFrom(result) ==
    IF ~Has(result, "stubs") THEN TypeError
    ELSE Assign(result, "stubs",
                SelectSeq([i \in DOMAIN result["stubs"] |-> withoutProxies(result["stubs"][i])],
                          LAMBDA stub : Len(stub["responses"]) > 0))

\* details added whatever the list option says
detailsAlways(options) == TRUE

\* line 164
detailsWanted(options) == ~options.list

\* lines 152-178
toJSON(options) ==
    LET base     == ("protocol" :> creationRequest["protocol"])
                    @@ ("port" :> server.port)
                    @@ ("numberOfRequests" :> numberOfRequests)
        detailed == IF detailsWanted(options) THEN addDetailsTo(base) ELSE base
        linked   == Assign(detailed, "_links",
                           [self |-> [href |-> <<"/imposters/", ToString(server.port)>>]])
        replay   == IF options.replayable
                    THEN removeNonEssentialInformationFrom(linked)
                    ELSE linked
    IN  IF Threw(replay) THEN replay
        ELSE IF options.removeProxies THEN removeProxiesFrom(replay)
        ELSE replay

\* a toJSON whose removeProxies works on the store's rules themselves
ToJSONInPlace(options) ==
    /\ Delivered
    /\ jsonResult' = [called |-> TRUE, options |-> options, result |-> toJSON(options)]
    /\ stubs' = IF options.removeProxies /\ ~Threw(toJSON(options))
                THEN SelectSeq([i \in DOMAIN stubs |-> withoutProxies(stubs[i])],
                               LAMBDA stub : Len(stub["responses"]) > 0)
                ELSE stubs
    /\ UNCHANGED <<creationRequest, config, forceRecording, numberOfRequests,
                   requests, now, server, matches, calls,
                   pendingProxyResolutions, proxyCalls, deferred, domainErrors,
                   stops>>

\* toJSON as an operation of the imposter: the caller gets the record (or the
\* error) and nothing of the imposter changes
ToJSON(options) ==
    /\ Delivered
    /\ jsonResult' = [called |-> TRUE, options |-> options, result |-> toJSON(options)]
    /\ UNCHANGED <<creationRequest, config, forceRecording, numberOfRequests,
                   requests, now, server, stubs, matches, calls,
                   pendingProxyResolutions, proxyCalls, deferred, domainErrors,
                   stops>>

(* --------------------------- specifications --------------------------- *)
AddedStubs ==
    Len(stubs) - (IF Has(creationRequest, "stubs") THEN Len(creationRequest["stubs"]) ELSE 0)

Created ==
    \E port \in ServerPorts(creationRequest), metadata \in Metadatas :
        ServerCreated(port, metadata)

Resolved ==
    \E id \in DOMAIN calls :
        \E response \in ResolvedResponses(id) : ResolveFulfilled(id, response)

Rejected == \E id \in DOMAIN calls : ResolveRejected(id)

ProxyResolved == \E n \in DOMAIN proxyCalls : ProxyFulfilled(n)

ProxyFailed == \E n \in DOMAIN proxyCalls : ProxyRejected(n)

Closed == \E n \in DOMAIN stops : CloseConfirmed(n)

Serialized == \E options \in Options : ToJSON(options)

\* Spec: the imposter's operations in every interleaving, MaxCalls calls all told
\* (toJSON calls, which change nothing, are not counted)
CallsMade == numberOfRequests + Len(proxyCalls) + Len(stops) + AddedStubs

Next ==
    \/ Created
    \/ \E request \in Requests : CallsMade < MaxCalls /\ GetResponseFor(request)
    \/ Resolved
    \/ Rejected
    \/ \E key \in DOMAIN calls : CallsMade < MaxCalls /\ GetProxyResponseFor(key)
    \/ ProxyResolved
    \/ ProxyFailed
    \/ \E stub \in AddableStubs : CallsMade < MaxCalls /\ AddStub(stub)
    \/ CallsMade < MaxCalls /\ Stop
    \/ Closed
    \/ Serialized

Spec == Init /\ [][Next]_vars

\* SpecPipeline: requests and their resolutions while the host changes its flags
NextPipeline ==
    \/ Created
    \/ \E request \in Requests :
           numberOfRequests < MaxRequests /\ GetResponseFor(request)
    \/ Resolved
    \/ Rejected
    \/ \E flag \in {"recordRequests", "recordMatches"} : ConfigChange(flag)

SpecPipeline == Init /\ [][NextPipeline]_vars

\* SpecProxy: requests, proxy handoffs and their later completion
NextProxy ==
    \/ Created
    \/ \E request \in Requests :
           numberOfRequests < MaxRequests /\ GetResponseFor(request)
    \/ Resolved
    \/ Rejected
    \/ \E key \in DOMAIN calls :
           Len(proxyCalls) < MaxProxyCalls /\ GetProxyResponseFor(key)
    \/ ProxyResolved
    \/ ProxyFailed
    \/ ConfigChange("recordMatches")

SpecProxy == Init /\ [][NextProxy]_vars

\* SpecCreate: creation and transport errors, around requests being
\* dispatched and rules being added
NextCreate ==
    \/ Created
    \/ \E error \in TransportErrors :
           Len(domainErrors) < MaxErrors /\ DomainError(error)
    \/ \E request \in Requests :
           numberOfRequests < MaxRequests /\ GetResponseFor(request)
    \/ \E stub \in AddableStubs : AddedStubs < MaxAddedStubs /\ AddStub(stub)

SpecCreate == Init /\ [][NextCreate]_vars

\* SpecStop: stop, and the transport's confirmation, around a request, its
\* resolution and its proxy completion
NextStop ==
    \/ Created
    \/ \E request \in Requests :
           numberOfRequests < MaxStopRequests /\ GetResponseFor(request)
    \/ Resolved
    \/ Rejected
    \/ \E key \in DOMAIN calls :
           Len(proxyCalls) < MaxProxyCalls /\ GetProxyResponseFor(key)
    \/ ProxyResolved
    \/ ProxyFailed
    \/ Len(stops) < MaxStops /\ Stop
    \/ Closed

SpecStop == Init /\ [][NextStop]_vars

\* SpecFlags: the host changes its flags while resolutions are suspended;
\* every request is dispatched at a time match recording is on
NextFlags ==
    \/ Created
    \/ \E request \in Requests :
           /\ numberOfRequests < MaxRequests
           /\ config.recordMatches
           /\ GetResponseFor(request)
    \/ Resolved
    \/ Rejected
    \/ \E flag \in {"recordRequests", "recordMatches"} : ConfigChange(flag)

SpecFlags == Init /\ [][NextFlags]_vars

(* ------------------------------- claims ------------------------------- *)
Failed(call) == call.pc \in {"threw", "rejected"}

\* C1: the request counter equals the number of getResponseFor calls made so
\* far, whatever became of each call; every step either leaves it alone or
\* is one getResponseFor call raising it by one; a toJSON result that
\* carries numberOfRequests carries that number.
RequestCounterCountsCalls ==
    /\ [](/\ numberOfRequests = Len(calls)
          /\ (jsonResult.called /\ ~Threw(jsonResult.result)
                  /\ ~jsonResult.options.replayable)
                 => /\ Has(jsonResult.result, "numberOfRequests")
                    /\ jsonResult.result["numberOfRequests"] = Len(calls))
    /\ [][\/ /\ numberOfRequests' = numberOfRequests
             /\ Len(calls') = Len(calls)
          \/ /\ numberOfRequests' = numberOfRequests + 1
             /\ Len(calls') = Len(calls) + 1]_vars

\* C1 witness: toJSON reports two requests, one that failed and one that
\* was answered with a proxy handoff.
CounterReportedAfterFailure ==
    /\ jsonResult.called
    /\ ~jsonResult.options.replayable
    /\ ~Threw(jsonResult.result)
    /\ jsonResult.result["numberOfRequests"] = 2
    /\ \E i, j \in DOMAIN calls :
          /\ Failed(calls[i])
          /\ calls[j].pc = "returned"
          /\ Has(calls[j].response, "proxy")

\* recording was asked for when the imposter was created: by the request's
\* flag or by the host's flag as read then
RecordingEnabled ==
    \/ forceRecording
    \/ (Has(creationRequest, "recordRequests") /\ creationRequest["recordRequests"] = TRUE)

\* C2: with recording enabled the log holds one entry per request received,
\* the i-th entry being the i-th request to arrive with its timestamp, and
\* timestamps in arrival order; the log is as long as the counter.
RecordedLogFollowsArrivals ==
    RecordingEnabled =>
        /\ Len(requests) = numberOfRequests
        /\ Len(requests) = Len(calls)
        /\ \A i \in DOMAIN requests :
              /\ Has(requests[i], "timestamp")
              /\ Delete(requests[i], "timestamp") = calls[i].request
        /\ \A i, j \in DOMAIN requests :
              i < j => requests[i]["timestamp"] <= requests[j]["timestamp"]

\* C2 witness: recording forced by the host's flag alone; two different
\* requests logged, the second answered while the first is still resolving.
LoggedOutOfOrderCompletion ==
    /\ forceRecording
    /\ ~Has(creationRequest, "recordRequests")
    /\ Len(requests) = 2
    /\ Len(calls) = 2
    /\ calls[1].pc = "resolving"
    /\ calls[2].pc = "returned"
    /\ calls[1].request # calls[2].request

\* C3: with recording disabled the log is empty in every state.
NothingRecordedWhenDisabled ==
    ~RecordingEnabled => requests = <<>>

\* C3 witness: recording disabled, two requests handled (one answered), the
\* host's flag switched on since, and the log still empty.
DisabledLogStaysEmpty ==
    /\ ~RecordingEnabled
    /\ config.recordRequests
    /\ numberOfRequests = 2
    /\ \E i \in DOMAIN calls : calls[i].pc = "returned"
    /\ requests = <<>>

\* what createErrorHandler is to make of an error
TypedAs(reason, error) ==
    IF error["errno"] = "EADDRINUSE"
    THEN /\ Has(reason, "code")
         /\ reason.code = "resource conflict"
         /\ reason.message =
                <<"Port ",
                  IF Has(creationRequest, "port")
                  THEN ToString(creationRequest["port"]) ELSE "undefined",
                  " is already in use">>
    ELSE IF error["errno"] = "EACCES"
         THEN Has(reason, "code") /\ reason.code = "insufficient access"
         ELSE reason = error

\* C4: an error raised while the creation result is pending rejects it, with
\* a ResourceConflictError naming the requested port for EADDRINUSE, an
\* InsufficientAccessError for EACCES and the error itself otherwise; a
\* rejected result carries that typed failure and no Imposter.
BindFailureRejectsTyped ==
    /\ [](deferred.state = "rejected" =>
             /\ domainErrors # <<>>
             /\ TypedAs(deferred.reason, domainErrors[1])
             /\ ~Has(deferred, "value"))
    /\ [][(deferred.state = "pending" /\ Len(domainErrors') > Len(domainErrors)) =>
             /\ deferred'.state = "rejected"
             /\ TypedAs(deferred'.reason, domainErrors'[Len(domainErrors')])]_vars

\* C4 witness: binding port 6000 failed with EADDRINUSE before the server
\* was created; the result is rejected with the conflict naming 6000.
PortConflictRejected ==
    /\ server.state = "creating"
    /\ deferred.state = "rejected"
    /\ Has(creationRequest, "port")
    /\ Has(deferred.reason, "code")
    /\ deferred.reason.code = "resource conflict"
    /\ deferred.reason.message = <<"Port ", "6000", " is already in use">>

\* C5: the creation result is settled once: a fulfilled result holds the
\* Imposter of a wired server, a settled result never changes again, and an
\* error arriving after it was fulfilled changes nothing of the imposter.
CreationSettledOnce ==
    /\ [](deferred.state = "fulfilled" =>
             /\ Wired
             /\ deferred.value = [port |-> server.port,
                                  url |-> <<"/imposters/", ToString(server.port)>>])
    /\ [][deferred.state # "pending" => deferred' = deferred]_vars
    /\ [][(deferred.state = "fulfilled" /\ Len(domainErrors') > Len(domainErrors)) =>
             UNCHANGED <<numberOfRequests, requests, server, stubs, matches, calls,
                         pendingProxyResolutions, proxyCalls, stops>>]_vars

\* C5 witness: the result was rejected, the server was created all the
\* same, and the result is still the rejection.
RejectionOutlivesCreation ==
    /\ deferred.state = "rejected"
    /\ Wired

InitialStubs ==
    IF Has(creationRequest, "stubs") THEN creationRequest["stubs"] ELSE <<>>

\* C6: in the step that fulfils the creation result the stub store holds
\* exactly the initial stubs, once each, in the order of the creation
\* request; later rules only follow them.
InitialStubsRegisteredInOrder ==
    /\ [][(deferred.state = "pending" /\ deferred'.state = "fulfilled") =>
             stubs' = InitialStubs]_vars
    /\ [](Delivered =>
             /\ Len(stubs) >= Len(InitialStubs)
             /\ SubSeq(stubs, 1, Len(InitialStubs)) = InitialStubs)

\* C6 witness: an imposter delivered with its two different initial stubs
\* and a rule added after them.
TwoInitialStubsThenOne ==
    /\ Delivered
    /\ Len(InitialStubs) = 2
    /\ InitialStubs[1] # InitialStubs[2]
    /\ Len(stubs) = 3

\* the recordMatch call getResponseFor owes a resolved response
OwedMatch(enabled, response, responseConfig) ==
    IF enabled /\ ~Has(response, "proxy")
    THEN <<[responseConfig |-> responseConfig,
            response |-> IF Has(response, "response") THEN response["response"]
                         ELSE response,
            by |-> "getResponseFor"]>>
    ELSE <<>>

Answered(id) == calls[id].pc = "resolving" /\ calls'[id].pc = "returned"

\* C7: the step in which a request's resolution is answered makes exactly
\* one recordMatch call, on that request's ResponseConfiguration and with
\* the inner response of a wrapped one, when match recording is on and the
\* response is no proxy handoff, and none otherwise; no other step of the
\* request pipeline records a match.
MatchRecordedOncePerAnswer ==
    [][IF \E id \in DOMAIN calls : Answered(id)
       THEN \A id \in DOMAIN calls :
                Answered(id) =>
                    matches' = matches \o OwedMatch(config.recordMatches,
                                                    calls'[id].response,
                                                    calls[id].responseConfig)
       ELSE matches' = matches]_vars

\* C7 witness: with match recording on, a wrapped response was recorded by
\* its inner response and a proxy handoff was answered without a record.
InnerRecordedHandoffNot ==
    /\ config.recordMatches
    /\ \E i, j \in DOMAIN calls :
          /\ calls[i].pc = "returned"
          /\ Has(calls[i].response, "response")
          /\ \E k \in DOMAIN matches :
                /\ matches[k].responseConfig = calls[i].responseConfig
                /\ matches[k].response = calls[i].response["response"]
          /\ calls[j].pc = "returned"
          /\ Has(calls[j].response, "proxy")
          /\ \A k \in DOMAIN matches :
                matches[k].responseConfig # calls[j].responseConfig

MatchCount(responseConfig, by) ==
    Len(SelectSeq(matches,
                  LAMBDA m : m.responseConfig = responseConfig /\ m.by = by))

ProxyAnswered(n) == proxyCalls[n].pc = "resolving" /\ proxyCalls'[n].pc = "returned"

\* C8: a request answered with a proxy handoff has no match recorded by
\* getResponseFor; the step in which getProxyResponseFor is answered for its
\* key records exactly one match on that request's ResponseConfiguration
\* when match recording is on and none when it is off; so the request has
\* at most one match.
ProxyMatchRecordedOnCompletion ==
    /\ [](\A id \in DOMAIN calls :
             (calls[id].pc = "returned" /\ Has(calls[id].response, "proxy")) =>
                 /\ MatchCount(calls[id].responseConfig, "getResponseFor") = 0
                 /\ MatchCount(calls[id].responseConfig, "getProxyResponseFor") <= 1)
    /\ [][\A n \in DOMAIN proxyCalls :
             ProxyAnswered(n) =>
                 IF config.recordMatches
                 THEN /\ Len(matches') = Len(matches) + 1
                      /\ SubSeq(matches', 1, Len(matches)) = matches
                      /\ matches'[Len(matches')].responseConfig =
                             calls[proxyCalls[n].key].responseConfig
                      /\ matches'[Len(matches')].by = "getProxyResponseFor"
                 ELSE matches' = matches]_vars

\* C8 witness: a handoff's proxy call was answered after another request
\* had been answered, and the handoff's configuration has its one match,
\* made by getProxyResponseFor.
HandoffMatchedOnce ==
    \E n \in DOMAIN proxyCalls :
        /\ proxyCalls[n].pc = "returned"
        /\ MatchCount(calls[proxyCalls[n].key].responseConfig, "getProxyResponseFor") = 1
        /\ MatchCount(calls[proxyCalls[n].key].responseConfig, "getResponseFor") = 0
        /\ \E id \in DOMAIN calls : id # proxyCalls[n].key /\ calls[id].pc = "returned"

DetailFields == {"name", "recordRequests", "requests", "stubs"}

\* C9: a toJSON call with the list option returns no stubs, no requests, no
\* name, no recording flag and no protocol metadata (when it returns a
\* record at all).
ListViewHasNoDetails ==
    (jsonResult.called /\ jsonResult.options.list /\ ~Threw(jsonResult.result)) =>
        DOMAIN jsonResult.result \cap (DetailFields \cup DOMAIN server.metadata) = {}

\* C9 witness: a list view returned while the imposter has a name, protocol
\* metadata, stubs and recorded requests.
ListViewOfBusyImposter ==
    /\ jsonResult.called
    /\ jsonResult.options.list
    /\ ~Threw(jsonResult.result)
    /\ TruthyString(creationRequest, "name")
    /\ server.metadata # EmptyObject
    /\ stubs # <<>>
    /\ requests # <<>>

\* a response of the replayable view against the live rule's response
SameButTiming(shown, live) ==
    /\ DOMAIN shown = DOMAIN live
    /\ \A f \in DOMAIN live :
          IF f = "is"
          THEN /\ DOMAIN shown[f] = DOMAIN live[f] \ {"_proxyResponseTime"}
               /\ \A g \in DOMAIN shown[f] : shown[f][g] = live[f][g]
          ELSE shown[f] = live[f]

\* C10: a toJSON call with the replayable option (and without list, with
\* which it returns no record) returns a record with no numberOfRequests, no
\* requests and no _links, whose stubs have no matches and whose 'is'
\* responses have no _proxyResponseTime; without removeProxies its stubs are
\* the store's rules, and their responses, in the same order, unchanged but
\* for that field.
ReplayableViewIsStatic ==
    (jsonResult.called /\ jsonResult.options.replayable) =>
        LET shown == jsonResult.result IN
        /\ Threw(shown) <=> jsonResult.options.list
        /\ ~Threw(shown) =>
              /\ DOMAIN shown \cap {"numberOfRequests", "requests", "_links"} = {}
              /\ Has(shown, "stubs")
              /\ \A i \in DOMAIN shown["stubs"] :
                    /\ ~Has(shown["stubs"][i], "matches")
                    /\ \A j \in DOMAIN shown["stubs"][i]["responses"] :
                          Has(shown["stubs"][i]["responses"][j], "is") =>
                              ~Has(shown["stubs"][i]["responses"][j]["is"],
                                   "_proxyResponseTime")
              /\ ~jsonResult.options.removeProxies =>
                    /\ Len(shown["stubs"]) = Len(stubs)
                    /\ \A i \in DOMAIN stubs :
                          /\ DOMAIN shown["stubs"][i] = DOMAIN stubs[i]
                          /\ \A f \in DOMAIN stubs[i] \ {"responses"} :
                                shown["stubs"][i][f] = stubs[i][f]
                          /\ Len(shown["stubs"][i]["responses"]) = Len(stubs[i]["responses"])
                          /\ \A j \in DOMAIN stubs[i]["responses"] :
                                SameButTiming(shown["stubs"][i]["responses"][j],
                                              stubs[i]["responses"][j])

\* C10 witness: a replayable view of an imposter that has counted and
\* recorded a request, has a match on a stub and a timed 'is' response.
ReplayableViewOfBusyImposter ==
    /\ jsonResult.called
    /\ jsonResult.options.replayable
    /\ ~jsonResult.options.list
    /\ ~jsonResult.options.removeProxies
    /\ numberOfRequests > 0
    /\ requests # <<>>
    /\ \E i \in DOMAIN stubs :
          /\ MatchesOf(i) # <<>>
          /\ \E j \in DOMAIN stubs[i]["responses"] :
                /\ Has(stubs[i]["responses"][j], "is")
                /\ Has(stubs[i]["responses"][j]["is"], "_proxyResponseTime")
    /\ \E i \in DOMAIN stubs :
          \E j \in DOMAIN stubs[i]["responses"] : Has(stubs[i]["responses"][j], "proxy")

\* f maps the positions of shown, in order, onto the positions of live that
\* satisfy Kept
InOrderOnto(f, shown, live, Kept(_)) ==
    /\ \A a, b \in DOMAIN shown : a < b => f[a] < f[b]
    /\ {f[a] : a \in DOMAIN shown} = {i \in DOMAIN live : Kept(live[i])}

IsProxy(response) == Has(response, "proxy")

HasOtherThanProxies(stub) ==
    \E j \in DOMAIN stub["responses"] : ~IsProxy(stub["responses"][j])

\* a response of a view against the live rule's response
ShownAs(shown, live, options) ==
    IF options.replayable THEN SameButTiming(shown, live) ELSE shown = live

\* C11: a toJSON call with the removeProxies option (and without list, with
\* which it returns no record) returns stubs none of which has a proxy
\* response or an empty response list: they are, in order, the store's rules
\* that have a response other than a proxy, each with exactly its non-proxy
\* responses in their original order.
ProxiesRemovedFromView ==
    (jsonResult.called /\ jsonResult.options.removeProxies) =>
        LET shown == jsonResult.result IN
        /\ Threw(shown) <=> jsonResult.options.list
        /\ ~Threw(shown) =>
              /\ Has(shown, "stubs")
              /\ \A i \in DOMAIN shown["stubs"] :
                    /\ shown["stubs"][i]["responses"] # <<>>
                    /\ \A j \in DOMAIN shown["stubs"][i]["responses"] :
                          ~IsProxy(shown["stubs"][i]["responses"][j])
              /\ \E f \in [DOMAIN shown["stubs"] -> DOMAIN stubs] :
                    /\ InOrderOnto(f, shown["stubs"], stubs, HasOtherThanProxies)
                    /\ \A i \in DOMAIN shown["stubs"] :
                          LET kept == shown["stubs"][i]["responses"]
                              all  == stubs[f[i]]["responses"]
                          IN  \E g \in [DOMAIN kept -> DOMAIN all] :
                                  /\ InOrderOnto(g, kept, all, LAMBDA r : ~IsProxy(r))
                                  /\ \A j \in DOMAIN kept :
                                        ShownAs(kept[j], all[g[j]], jsonResult.options)

\* C11 witness: a view without proxies of an imposter holding a rule with
\* only a proxy response and a rule with a proxy followed by another
\* response; the view has fewer stubs than the store.
ProxyOnlyStubDropped ==
    /\ jsonResult.called
    /\ jsonResult.options.removeProxies
    /\ ~Threw(jsonResult.result)
    /\ \E i \in DOMAIN stubs : ~HasOtherThanProxies(stubs[i])
    /\ \E i \in DOMAIN stubs :
          /\ HasOtherThanProxies(stubs[i])
          /\ IsProxy(stubs[i]["responses"][1])
    /\ Len(jsonResult.result["stubs"]) < Len(stubs)
    /\ jsonResult.result["stubs"] # <<>>

CloseRequests == Len(stops)

\* C13: the transport is sent at most one close request, however many times
\* stop is called.
AtMostOneCloseRequest == CloseRequests <= 1

\* stop has been called
StopCalled == stops # <<>>

\* C14: a step in which stop is called or a close is confirmed leaves every
\* call of getResponseFor and getProxyResponseFor, and the matches, as they
\* were; once stop has been called a resolution still outstanding can be
\* fulfilled with any response, and a proxy completion can be fulfilled;
\* the step that answers one returns the response to its caller and records
\* the match it would have recorded before stop.
StopAbortsNoResolution ==
    /\ [][stops' # stops =>
             UNCHANGED <<calls, proxyCalls, matches, pendingProxyResolutions>>]_vars
    /\ [](StopCalled =>
             /\ \A id \in DOMAIN calls :
                   calls[id].pc = "resolving" =>
                       \A response \in ResolvedResponses(id) :
                           ENABLED ResolveFulfilled(id, response)
             /\ \A n \in DOMAIN proxyCalls :
                   proxyCalls[n].pc = "resolving" => ENABLED ProxyFulfilled(n))
    /\ [][StopCalled =>
             /\ \A id \in DOMAIN calls :
                   Answered(id) =>
                       /\ calls'[id].response \in ResolvedResponses(id)
                       /\ matches' = matches \o OwedMatch(config.recordMatches,
                                                         calls'[id].response,
                                                         calls[id].responseConfig)
             /\ \A n \in DOMAIN proxyCalls :
                   ProxyAnswered(n) =>
                       matches' = matches \o
                           (IF config.recordMatches
                            THEN <<[responseConfig |-> calls[proxyCalls[n].key].responseConfig,
                                    response |-> "data" :> "proxied",
                                    by |-> "getProxyResponseFor"]>>
                            ELSE <<>>)]_vars

\* C14 witness: every stop has been confirmed and the imposter is closed,
\* with match recording on; the request was answered with a proxy handoff,
\* and its proxy completion is still outstanding and can be fulfilled.
OutstandingAtClosedImposter ==
    /\ config.recordMatches
    /\ server.state = "closed"
    /\ \A k \in DOMAIN stops : stops[k] = "resolved"
    /\ \E n \in DOMAIN proxyCalls :
          /\ proxyCalls[n].pc = "resolving"
          /\ calls[proxyCalls[n].key].pc = "returned"
          /\ ENABLED ProxyFulfilled(n)

\* a stop call has resolved: the transport has confirmed a close
Stopped == \E n \in DOMAIN stops : stops[n] = "resolved"

\* C15: once the imposter is Stopped no step is a getResponseFor call taking
\* effect: the request counter, the recorded-request log and the number of
\* requests handed to matching stay as they are.
NoRequestOnceStopped ==
    [][Stopped =>
          /\ numberOfRequests' = numberOfRequests
          /\ requests' = requests
          /\ Len(calls') = Len(calls)]_vars

\* call id fails in this step: it throws while being dispatched, or its
\* resolution is rejected
FailsNow(id) ==
    \/ id = Len(calls) + 1 /\ Len(calls') = id /\ calls'[id].pc = "threw"
    \/ id \in DOMAIN calls /\ calls[id].pc = "resolving" /\ calls'[id].pc = "rejected"

\* C16: a request whose matching or resolution fails is a failed call of
\* its own, which stays failed, has no response and no match, and is counted
\* (and recorded, when recording is on) like any other; the step in which
\* it fails changes no other call, no rule and no match; every other call
\* carries the configuration of the rule its own request matches, and one
\* still resolving can be answered with any response, and a further request
\* dispatched, whatever has failed.
FailureIsTheCallsOwn ==
    /\ [](/\ numberOfRequests = Len(calls)
          /\ RecordingEnabled => Len(requests) = Len(calls)
          /\ \A id \in DOMAIN calls :
                /\ Failed(calls[id]) =>
                      /\ ~Has(calls[id], "response")
                      /\ Has(calls[id], "responseConfig") =>
                            MatchCount(calls[id].responseConfig, "getResponseFor") = 0
                /\ Has(calls[id], "responseConfig") =>
                      calls[id].responseConfig.stub = FirstMatch(stubs, calls[id].request)
                /\ calls[id].pc = "resolving" =>
                      \A response \in ResolvedResponses(id) :
                          ENABLED ResolveFulfilled(id, response)
          /\ \A request \in Requests : ENABLED GetResponseFor(request))
    /\ [][\A id \in DOMAIN calls : Failed(calls[id]) => calls'[id] = calls[id]]_vars
    /\ [][\A id \in 1 .. Len(calls) + 1 :
             FailsNow(id) =>
                 /\ numberOfRequests' >= numberOfRequests
                 /\ Len(requests') >= Len(requests)
                 /\ \A k \in DOMAIN calls \ {id} : calls'[k] = calls[k]
                 /\ UNCHANGED <<stubs, matches, pendingProxyResolutions>>]_vars

\* C16 witness: with recording and match recording on, the first request
\* was rejected by the resolver and the second was answered and its match
\* recorded; both are counted and logged.
AnsweredBesideFailure ==
    /\ RecordingEnabled
    /\ config.recordMatches
    /\ Len(calls) = 2
    /\ calls[1].pc = "rejected"
    /\ calls[2].pc = "returned"
    /\ ~Has(calls[2].response, "proxy")
    /\ MatchCount(calls[2].responseConfig, "getResponseFor") = 1
    /\ numberOfRequests = 2
    /\ Len(requests) = 2

\* C17: the flags as they were at creation and at dispatch decide, not the
\* flags as they are when the resolution completes: a request is logged
\* exactly when recording was enabled at creation; and, every request of
\* SpecFlags being dispatched while match recording is on, every answered
\* request that is no proxy handoff has its one match, whatever the host has
\* done to the flag since.
DispatchTimeFlagsDecide ==
    /\ RecordingEnabled => Len(requests) = Len(calls)
    /\ ~RecordingEnabled => requests = <<>>
    /\ \A id \in DOMAIN calls :
          (calls[id].pc = "returned" /\ ~Has(calls[id].response, "proxy")) =>
              MatchCount(calls[id].responseConfig, "getResponseFor") = 1

\* a proxy handoff has been returned and its completion has not been asked
\* for, or has been asked for and is not answered yet
ProxyPending ==
    \/ pendingProxyResolutions # {}
    \/ \E n \in DOMAIN proxyCalls : proxyCalls[n].pc = "resolving"

\* C18: while a proxy completion is pending any request can be dispatched
\* and any request still resolving can be answered; a request dispatched
\* then is counted and, when recording is on, logged; one answered then has
\* its match recorded as ever; and no step but a getProxyResponseFor call
\* takes a pending handoff away.
PendingProxyBlocksNothing ==
    /\ [](ProxyPending =>
             /\ \A request \in Requests : ENABLED GetResponseFor(request)
             /\ \A id \in DOMAIN calls :
                   calls[id].pc = "resolving" =>
                       \A response \in ResolvedResponses(id) :
                           ENABLED ResolveFulfilled(id, response))
    /\ [][ProxyPending =>
             /\ Len(calls') > Len(calls) =>
                   /\ numberOfRequests' = numberOfRequests + 1
                   /\ RecordingEnabled =>
                         /\ Len(requests') = Len(requests) + 1
                         /\ Delete(requests'[Len(requests')], "timestamp") =
                                calls'[Len(calls')].request
             /\ \A id \in DOMAIN calls :
                   Answered(id) =>
                       matches' = matches \o OwedMatch(config.recordMatches,
                                                       calls'[id].response,
                                                       calls[id].responseConfig)
             /\ Len(proxyCalls') = Len(proxyCalls) =>
                   pendingProxyResolutions \subseteq pendingProxyResolutions']_vars

\* C18 witness: the first request was answered with a proxy handoff whose
\* completion nobody has asked for; the second request has been counted,
\* logged, answered with a response of its own and its match recorded.
ServedBesidePendingProxy ==
    /\ RecordingEnabled
    /\ config.recordMatches
    /\ proxyCalls = <<>>
    /\ Len(calls) = 2
    /\ calls[1].pc = "returned"
    /\ Has(calls[1].response, "proxy")
    /\ calls[1].response["proxy"].key \in pendingProxyResolutions
    /\ calls[2].pc = "returned"
    /\ ~Has(calls[2].response, "proxy")
    /\ MatchCount(calls[2].responseConfig, "getResponseFor") = 1
    /\ numberOfRequests = 2
    /\ Len(requests) = 2

\* C19: getResponseFor never runs while the stub store and the resolver are
\* unset: as long as the server is not wired no request has been counted,
\* logged or dispatched.
NoRequestBeforeWired ==
    ~Wired => (numberOfRequests = 0 /\ requests = <<>> /\ calls = <<>>)

\* C20: every toJSON call on a listening imposter, whatever its options,
\* returns a record, which carries the protocol name and the port.
ViewReturnedForEveryOption ==
    (jsonResult.called /\ server.state = "listening") =>
        /\ ~Threw(jsonResult.result)
        /\ Has(jsonResult.result, "protocol")
        /\ jsonResult.result["protocol"] = creationRequest["protocol"]
        /\ Has(jsonResult.result, "port")
        /\ jsonResult.result["port"] = server.port

====
